---- MODULE Spec2Model ----
(***************************************************************************)
(* Model of src/index.js (Octra auto-transfer): the driver loop            *)
(* runAutoTransfer, one batch runBatchTransfer with its claim phase        *)
(* (claimPendingPrivateTransfers), funding phase (autoEncrypt) and the     *)
(* recipient loop with the private/public decision.                        *)
(*                                                                         *)
(* The program is one sequential async function; a step of the model is    *)
(* the code between two awaits.  The remote RPC is external: every         *)
(* request draws its outcome (failure, or a reply) nondeterministically.   *)
(* A reply that arrives is a JSON object (the fields may be missing).      *)
(* The wallet seed, once loaded, is a valid 32-byte seed.                  *)
(*                                                                         *)
(* Amounts in OCT are counted in thousandths of an OCT (0.01 OCT = 10);    *)
(* balances and transfer amounts in micro-units are plain integers.        *)
(***************************************************************************)
EXTENDS Integers, Sequences, FiniteSets, TLC

\* ------------------------------------------------------------------ bounds
MaxLines == 3      \* lines of the target file
MaxPending == 3    \* pending private transfers returned by one fetch
MaxBatch == 2      \* the batch index saturates here (it only labels the log)

\* ------------------------------------------------------- program constants
MICRO_OCT == 1000000

\* CONFIG.amountPerTx, in thousandths of an OCT: 0.01 (as shipped), 0.1, and
\* the two amounts around the fee-tier boundary, 999.999 and 1000
AmountChoices == {10, 100, 999999, 1000000}

\* ---------------------------------------------------- replies of the RPC
\* a field of a reply: present with a value, or absent (undefined)
Field(v) == [present |-> TRUE, v |-> v]
Missing == [present |-> FALSE, v |-> 0]
EncValues == {0, 50000, 100000, 250000}
PubValues == {500000, 1010000, 1100000}
NonceValues == {5}
Addresses == {"oct1"}
\* a base64 string is represented by its number of non-padding characters
KeyChars == {0, 42, 43, 44}
HasKeyValues == {"true", "false", "missing"}
\* readings of Date.now(), in milliseconds
ClockValues == {1123, 2500}
WalletAddress == "octWallet"

VARIABLES
  pc,             \* position of the program
  exitCode,       \* 0 while running, else the status given to process.exit
  batch,          \* runAutoTransfer: batch (0 before the loop is entered)
  batchIndex,     \* runBatchTransfer: batchIndex
  amountPerTx,    \* CONFIG.amountPerTx
  lastLog,        \* the last line written by logWithTimestamp
  targets,        \* runBatchTransfer: targets
  transfers,      \* claimPendingPrivateTransfers: transfers
  ci,             \* claimPendingPrivateTransfers: position of the for-of loop
  claimLog,       \* claim requests issued by this invocation
  encrypted_raw,  \* autoEncrypt: encrypted_raw
  public_raw,     \* autoEncrypt: public_raw
  funded,         \* autoEncrypt: return value ("pending" until it returns)
  encReqs,        \* encrypt_balance requests issued by this invocation
  aeReads,        \* balance reads made by this invocation
  slept,          \* autoEncrypt waited the propagation delay
  nonce,          \* runBatchTransfer: nonce
  n0,             \* the value getCurrentNonce returned for this batch
  nonceFetchFailed, \* getCurrentNonce took its catch branch in this batch
  encryptedCache, \* runBatchTransfer: encryptedCache
  c0,             \* the encrypted_raw snapshot of this batch
  i,              \* runBatchTransfer: loop index (1-based)
  coin,           \* outcome of Math.random() < 0.5 of this iteration
  usePrivate,     \* runBatchTransfer: usePrivate
  hasPublicKey,   \* check.data.has_public_key of this iteration
  toPubKey,       \* runBatchTransfer: toPubKey
  privLog,        \* private_transfer requests of this batch
  sendLog,        \* send-tx attempts of this batch
  lastTx,         \* the body of the last send-tx request (<<>> when none)
  aeCalls         \* invocations of autoEncrypt in this batch

vars == <<pc, exitCode, batch, batchIndex, amountPerTx, lastLog, targets, transfers, ci,
          claimLog, encrypted_raw, public_raw, funded, encReqs, aeReads, slept,
          nonce, n0, nonceFetchFailed, encryptedCache, c0, i, coin, usePrivate, hasPublicKey,
          toPubKey, privLog, sendLog, lastTx, aeCalls>>

claimVars == <<transfers, ci, claimLog>>
aeVars == <<encrypted_raw, public_raw, funded, encReqs, aeReads, slept>>
iterVars == <<coin, usePrivate, hasPublicKey, toPubKey>>
loopVars == <<nonce, n0, nonceFetchFailed, encryptedCache, c0, i, privLog, sendLog>>

\* ---------------------------------------------------------------- helpers
Log(kind, a, b) == [kind |-> kind, a |-> a, b |-> b]

\* Math.floor(amount * MICRO_OCT)
MicroUnits(amount) == amount * (MICRO_OCT \div 1000)

\* parseInt(field || 0)
ParseIntOr0(field) == IF field.present THEN field.v ELSE 0

\* .filter(Boolean) on the lines of the target file
RECURSIVE FilterNonEmpty(_)
FilterNonEmpty(lines) ==
  IF lines = <<>> THEN <<>>
  ELSE IF Head(lines) = "" THEN FilterNonEmpty(Tail(lines))
       ELSE <<Head(lines)>> \o FilterNonEmpty(Tail(lines))

SeqsUpTo(S, n) == UNION {[1..k -> S] : k \in 0..n}

TargetFiles == SeqsUpTo(Addresses \cup {""}, MaxLines)

\* lists of pending transfers: distinct ids, any order
PendingLists ==
  {s \in SeqsUpTo(1..MaxPending, MaxPending) :
     \A x, y \in 1..Len(s) : x # y => s[x] # s[y]}

\* ------------------------------------------------------------------- Init
Init ==
  /\ pc = "Start"
  /\ exitCode = 0
  /\ batch = 0
  /\ batchIndex = 0
  /\ amountPerTx \in AmountChoices
  /\ lastLog = Log("none", 0, 0)
  /\ targets = <<>>
  /\ transfers = <<>>
  /\ ci = 0
  /\ claimLog = <<>>
  /\ encrypted_raw = 0
  /\ public_raw = 0
  /\ funded = "pending"
  /\ encReqs = <<>>
  /\ aeReads = 0
  /\ slept = FALSE
  /\ nonce = 0
  /\ n0 = 0
  /\ nonceFetchFailed = FALSE
  /\ encryptedCache = 0
  /\ c0 = 0
  /\ i = 0
  /\ coin = "unflipped"
  /\ usePrivate = FALSE
  /\ hasPublicKey = "missing"
  /\ toPubKey = Field(0)
  /\ privLog = <<>>
  /\ sendLog = <<>>
  /\ lastTx = <<>>
  /\ aeCalls = 0

\* ------------------------------------------------------- startup and exit
\* runAutoTransfer, lines 235-237: loadWallet, then batch = 1
LoadWallet ==
  /\ pc = "Start"
  /\ \E ok \in BOOLEAN :
       IF ok
       THEN /\ pc' = "LoadTargets"
            /\ batch' = 1
            /\ lastLog' = Log("Wallet", 0, 0)
            /\ UNCHANGED exitCode
       ELSE /\ pc' = "Exited"
            /\ exitCode' = 1
            /\ lastLog' = Log("Failed to load wallet", 0, 0)
            /\ UNCHANGED batch
  /\ UNCHANGED <<aeCalls, lastTx, batchIndex, amountPerTx, targets, claimVars, aeVars, iterVars, loopVars>>

\* line 240, batch++: the counter only labels the log and saturates at MaxBatch
NextBatchCounter(b) == IF b < MaxBatch THEN b + 1 ELSE b

\* the failure is logged and the batch goes on with what it has
PcAfterLoadFailureGoOn == "FetchPending"

\* line 56, process.exit(1)
PcAfterLoadFailure == "Exited"

\* line 240 (the call, batch++) and runBatchTransfer, lines 158-159:
\* loadTargetAddresses reads the file afresh or ends the process
LoadTargetAddresses ==
  /\ pc = "LoadTargets"
  /\ batchIndex' = batch
  /\ batch' = NextBatchCounter(batch)
  /\ \/ \E file \in TargetFiles :
          /\ targets' = FilterNonEmpty(file)
          /\ pc' = "FetchPending"
          /\ lastLog' = Log("Running batch", batchIndex', 0)
          /\ UNCHANGED exitCode
     \/ /\ pc' = PcAfterLoadFailure
        /\ exitCode' = 1
        /\ lastLog' = Log("Failed to load target addresses", 0, 0)
        /\ UNCHANGED targets
  /\ UNCHANGED <<aeCalls, lastTx, amountPerTx, claimVars, aeVars, iterVars, loopVars>>

\* ------------------------------------------------------------ claim phase
\* claimPendingPrivateTransfers, lines 89-93 and 106-108: the fetch
FetchPending ==
  /\ pc = "FetchPending"
  /\ \/ /\ transfers' = <<>>          \* the request failed: outer catch
        /\ lastLog' = Log("Error fetching claimables", 0, 0)
        /\ pc' = "ClaimReturn"
     \/ \E reply \in {Field(l) : l \in PendingLists} \cup {[present |-> FALSE, v |-> <<>>]} :
          /\ transfers' = IF reply.present THEN reply.v ELSE <<>>   \* || []
          /\ pc' = IF transfers' = <<>> THEN "ClaimReturn" ELSE "Claim"
          /\ UNCHANGED lastLog
  /\ ci' = 1
  /\ claimLog' = <<>>
  /\ UNCHANGED <<aeCalls, lastTx, exitCode, batch, batchIndex, amountPerTx, targets, aeVars, iterVars, loopVars>>

\* a failed claim ends the loop
NextClaimPcBreakOnFailure(ok, k, n) ==
  IF ok /\ k < n THEN "Claim" ELSE "ClaimReturn"

\* lines 94-105: the inner try/catch swallows the failure, the loop goes on
NextClaimPc(ok, k, n) == IF k < n THEN "Claim" ELSE "ClaimReturn"

\* lines 95-104: one claim_private_transfer request
ClaimOne ==
  /\ pc = "Claim"
  /\ ci <= Len(transfers)
  /\ \E ok \in BOOLEAN :
       /\ claimLog' = Append(claimLog, [id |-> transfers[ci], ok |-> ok])
       /\ lastLog' = Log(IF ok THEN "Claimed" ELSE "Failed to claim", transfers[ci], 0)
       /\ pc' = NextClaimPc(ok, ci, Len(transfers))
  /\ ci' = ci + 1
  /\ UNCHANGED <<aeCalls, lastTx, exitCode, batch, batchIndex, amountPerTx, targets, transfers, aeVars, iterVars, loopVars>>

\* autoEncrypt is not called
PcAfterClaimsNoFunding == "GetNonce"

\* lines 161-162: autoEncrypt follows claimPendingPrivateTransfers
PcAfterClaims == "AE_Read"

\* line 109 / 161: the function returns, its locals are gone
ClaimReturn ==
  /\ pc = "ClaimReturn"
  /\ pc' = PcAfterClaims
  /\ transfers' = <<>>
  /\ ci' = 0
  /\ claimLog' = <<>>
  /\ UNCHANGED <<aeCalls, lastTx, exitCode, batch, batchIndex, amountPerTx, lastLog, targets, aeVars, iterVars, loopVars>>

\* ---------------------------------------------------------- funding phase
\* getEncryptedBalance, lines 111-124: what it returns
GetEncryptedBalanceResults ==
  {[encrypted_raw |-> 0, public_raw |-> 0, failed |-> TRUE]} \cup
  {[encrypted_raw |-> ParseIntOr0(e), public_raw |-> ParseIntOr0(p), failed |-> FALSE] :
     e \in {Field(v) : v \in EncValues} \cup {Missing},
     p \in {Field(v) : v \in PubValues} \cup {Missing}}

BalanceLog(r, old) ==
  IF r.failed THEN Log("Failed to fetch encrypted balance", 0, 0) ELSE old

\* line 129
buffer == 1 * MICRO_OCT

\* line 131
EncryptedSufficient(enc, min) == enc >= min

\* the buffer is left out of the test
PublicInsufficientNoBuffer(pub, min) == pub < min

\* line 136
PublicInsufficient(pub, min) == pub < min + buffer

\* the whole public balance is encrypted
EncryptAmountAll(min, pub) == pub

\* line 144
EncryptAmount(min, pub) == min

\* lines 150 and 153
FundedAfterRequest(ok) == IF ok THEN "true" ELSE "false"

\* autoEncrypt, line 127
AE_GetBalance ==
  /\ pc = "AE_Read"
  /\ \E r \in GetEncryptedBalanceResults :
       /\ encrypted_raw' = r.encrypted_raw
       /\ public_raw' = r.public_raw
       /\ lastLog' = BalanceLog(r, lastLog)
  /\ aeReads' = aeReads + 1
  /\ aeCalls' = aeCalls + 1
  /\ pc' = "AE_Check"
  /\ UNCHANGED <<lastTx, exitCode, batch, batchIndex, amountPerTx, targets, claimVars, funded, encReqs,
                 slept, iterVars, loopVars>>

\* autoEncrypt, lines 128-148 and 151-153
AE_Check ==
  /\ pc = "AE_Check"
  /\ LET min == MicroUnits(amountPerTx) IN
     IF EncryptedSufficient(encrypted_raw, min)
     THEN /\ funded' = "true"
          /\ lastLog' = Log("Encrypted balance already sufficient", 0, 0)
          /\ pc' = "AE_Return"
          /\ UNCHANGED encReqs
     ELSE IF PublicInsufficient(public_raw, min)
     THEN /\ funded' = "false"
          /\ lastLog' = Log("Not enough public balance to auto-encrypt", 0, 0)
          /\ pc' = "AE_Return"
          /\ UNCHANGED encReqs
     ELSE \E ok \in BOOLEAN :
          /\ encReqs' = Append(encReqs, [amount |-> EncryptAmount(min, public_raw), ok |-> ok])
          /\ IF ok
             THEN /\ lastLog' = Log("Auto-encrypt tx sent", 0, 0)
                  /\ pc' = "AE_Sleep"
                  /\ UNCHANGED funded
             ELSE /\ lastLog' = Log("Encrypt failed", 0, 0)
                  /\ funded' = FundedAfterRequest(FALSE)
                  /\ pc' = "AE_Return"
  /\ UNCHANGED <<aeCalls, lastTx, exitCode, batch, batchIndex, amountPerTx, targets, claimVars, encrypted_raw,
                 public_raw, aeReads, slept, iterVars, loopVars>>

\* autoEncrypt, lines 149-150: the propagation delay, then return true
AE_Sleep ==
  /\ pc = "AE_Sleep"
  /\ slept' = TRUE
  /\ funded' = FundedAfterRequest(TRUE)
  /\ pc' = "AE_Return"
  /\ UNCHANGED <<aeCalls, lastTx, exitCode, batch, batchIndex, amountPerTx, lastLog, targets, claimVars, encrypted_raw,
                 public_raw, encReqs, aeReads, iterVars, loopVars>>

\* line 162: the caller drops the result, the locals are gone
AE_Return ==
  /\ pc = "AE_Return"
  /\ pc' = "GetNonce"
  /\ encrypted_raw' = 0
  /\ public_raw' = 0
  /\ funded' = "pending"
  /\ encReqs' = <<>>
  /\ aeReads' = 0
  /\ slept' = FALSE
  /\ UNCHANGED <<aeCalls, lastTx, exitCode, batch, batchIndex, amountPerTx, lastLog, targets, claimVars, iterVars, loopVars>>

\* -------------------------------------------------------- recipient loop
\* the failure is rethrown and reaches the catch of line 247
PcAfterNonceFetchRethrow(failed) == IF failed THEN "Exited" ELSE "GetCache"

\* lines 228-231 and 164-165: the catch returns, the batch goes on
PcAfterNonceFetch(failed) == "GetCache"

\* line 230
NonceOnFetchFailure == 0

\* getCurrentNonce, lines 224-232: what it returns
GetCurrentNonceResults ==
  {[nonce |-> NonceOnFetchFailure, failed |-> TRUE]} \cup
  {[nonce |-> ParseIntOr0(f), failed |-> FALSE] :
     f \in {Field(v) : v \in NonceValues} \cup {Missing}}

\* runBatchTransfer, line 164
GetCurrentNonce ==
  /\ pc = "GetNonce"
  /\ \E r \in GetCurrentNonceResults :
       /\ nonce' = r.nonce
       /\ n0' = r.nonce
       /\ nonceFetchFailed' = r.failed
       /\ lastLog' = IF r.failed THEN Log("Failed to fetch nonce", 0, 0) ELSE lastLog
       /\ pc' = PcAfterNonceFetch(r.failed)
  /\ UNCHANGED <<aeCalls, lastTx, exitCode, batch, batchIndex, amountPerTx, targets, claimVars, aeVars,
                 iterVars, encryptedCache, c0, i, privLog, sendLog>>

\* line 168: the loop test
LoopPc(k, n) == IF k <= n THEN "LoopHead" ELSE "Done"

\* runBatchTransfer, lines 165-168
GetEncryptedCache ==
  /\ pc = "GetCache"
  /\ \E r \in GetEncryptedBalanceResults :
       /\ encryptedCache' = r.encrypted_raw
       /\ c0' = r.encrypted_raw
       /\ lastLog' = BalanceLog(r, lastLog)
  /\ i' = 1
  /\ pc' = LoopPc(1, Len(targets))
  /\ UNCHANGED <<aeCalls, lastTx, exitCode, batch, batchIndex, amountPerTx, targets, claimVars, aeVars,
                 iterVars, nonce, n0, nonceFetchFailed, privLog, sendLog>>

\* the balance test is left out
UsePrivateGateCoinOnly(cache, min, flip) == flip

\* line 171
UsePrivateGate(cache, min, flip) == cache >= min /\ flip

\* !check.data?.has_public_key is false
Truthy(has) == has = "true"

\* line 177
HasKey(has) == Truthy(has)

\* Buffer.from(s, 'base64').length: 6 bits a character, whole bytes only
Base64DecodedLength(chars) == (chars * 6) \div 8

\* line 183
KeyInvalid(key) == ~key.present \/ key.v = 0 \/ Base64DecodedLength(key.v) # 32

\* the end of an iteration: its block-scoped variables are gone
IterationEnd ==
  /\ coin' = "unflipped"
  /\ usePrivate' = FALSE
  /\ hasPublicKey' = "missing"
  /\ toPubKey' = Field(0)

\* an empty cache is topped up again before the public send
PcAfterGateTopUp(use, cache, min) ==
  IF use THEN "CheckBalance" ELSE IF cache < min THEN "AE_Read" ELSE "Public"

\* lines 174 and 194: the lookups when usePrivate, else the public send
PcAfterGate(use, cache, min) == IF use THEN "CheckBalance" ELSE "Public"

\* lines 169-174
Gate ==
  /\ pc = "LoopHead"
  /\ \E flip \in BOOLEAN :
       LET min == MicroUnits(amountPerTx) IN
       /\ usePrivate' = UsePrivateGate(encryptedCache, min, flip)
       /\ coin' = IF encryptedCache >= min
                  THEN (IF flip THEN "heads" ELSE "tails")
                  ELSE "unflipped"
  /\ toPubKey' = Field(0)
  /\ pc' = PcAfterGate(usePrivate', encryptedCache, MicroUnits(amountPerTx))
  /\ UNCHANGED <<aeCalls, lastTx, exitCode, batch, batchIndex, amountPerTx, lastLog, targets, claimVars,
                 aeVars, hasPublicKey, loopVars>>

\* lines 176-180 and 188-191: GET /balance/{recipient}
CheckRecipient ==
  /\ pc = "CheckBalance"
  /\ \/ /\ usePrivate' = FALSE
        /\ lastLog' = Log("Check pubkey failed", i, 0)
        /\ pc' = "Public"
        /\ UNCHANGED hasPublicKey
     \/ \E has \in HasKeyValues :
          /\ hasPublicKey' = has
          /\ IF HasKey(has)
             THEN /\ pc' = "GetPubKey"
                  /\ UNCHANGED <<usePrivate, lastLog>>
             ELSE /\ usePrivate' = FALSE
                  /\ lastLog' = Log("SKIP PRIVATE (no pubkey)", i, 0)
                  /\ pc' = "Public"
  /\ UNCHANGED <<aeCalls, lastTx, exitCode, batch, batchIndex, amountPerTx, targets, claimVars, aeVars,
                 coin, toPubKey, loopVars>>

\* lines 181-191: GET /public_key/{recipient}
GetPublicKey ==
  /\ pc = "GetPubKey"
  /\ \/ /\ usePrivate' = FALSE
        /\ lastLog' = Log("Check pubkey failed", i, 0)
        /\ pc' = "Public"
        /\ UNCHANGED toPubKey
     \/ \E key \in {Field(c) : c \in KeyChars} \cup {Missing} :
          /\ toPubKey' = key
          /\ IF KeyInvalid(key)
             THEN /\ usePrivate' = FALSE
                  /\ lastLog' = Log("Invalid pubkey", i, 0)
                  /\ pc' = "Public"
             ELSE /\ pc' = "Private"
                  /\ UNCHANGED <<usePrivate, lastLog>>
  /\ UNCHANGED <<aeCalls, lastTx, exitCode, batch, batchIndex, amountPerTx, targets, claimVars, aeVars,
                 coin, hasPublicKey, loopVars>>

\* a private transfer consumes a nonce
NonceAfterPrivateConsumes(n) == n + 1

\* lines 204-206: the nonce is not touched
NonceAfterPrivate(n) == n

\* the cache is not updated
CacheAfterPrivateKept(cache, min) == cache

\* line 205
CacheAfterPrivate(cache, min) == cache - min

\* the private transfer is tried again for the same recipient
PcAfterPrivateFailureRetry(k, n) == "LoopHead"

\* the failure is not caught: it ends the loop
PcAfterPrivateFailureAbort(k, n) == "Done"

\* lines 207-212: the catch falls through to the public send
PcAfterPrivateFailure(k, n) == "Public"

\* line 206, continue: the next iteration, with no delay
PcAfterPrivateSuccess(k, n) == LoopPc(k + 1, n)

\* lines 194-209: POST /private_transfer
PrivateTransfer ==
  /\ pc = "Private"
  /\ usePrivate
  /\ \E ok \in BOOLEAN :
       /\ privLog' = Append(privLog, [idx |-> i, ok |-> ok])
       /\ IF ok
          THEN /\ lastLog' = Log("PRIVATE", i, 0)
               /\ encryptedCache' = CacheAfterPrivate(encryptedCache, MicroUnits(amountPerTx))
               /\ nonce' = NonceAfterPrivate(nonce)
               /\ pc' = PcAfterPrivateSuccess(i, Len(targets))
               /\ i' = i + 1
               /\ IterationEnd
          ELSE /\ lastLog' = Log("PRIVATE failed", i, 0)
               /\ pc' = PcAfterPrivateFailure(i, Len(targets))
               /\ UNCHANGED <<encryptedCache, nonce, i, iterVars>>
  /\ UNCHANGED <<aeCalls, lastTx, exitCode, batch, batchIndex, amountPerTx, targets, claimVars, aeVars,
                 n0, nonceFetchFailed, c0, sendLog>>

\* nonce++: the transaction carries the old value
TxNoncePostIncrement(n) == n

\* line 213, ++nonce: the transaction carries the incremented value
TxNonce(n) == n + 1

\* line 213, ++nonce: evaluated before the transaction is built and sent
NonceAfterSend(n, ok) == n + 1

\* Date.now() / 1000: whole seconds and thousandths
Seconds(ms) == [whole |-> ms \div 1000, frac |-> ms % 1000]

\* the text of a number of seconds, as JSON.stringify writes it
SecondsText(t) ==
  IF t.frac = 0 THEN ToString(t.whole)
  ELSE ToString(t.whole) \o "." \o
       (IF t.frac % 100 = 0 THEN ToString(t.frac \div 100)
        ELSE IF t.frac % 10 = 0
             THEN (IF t.frac < 100 THEN "0" ELSE "") \o ToString(t.frac \div 10)
             ELSE (IF t.frac < 10 THEN "00" ELSE IF t.frac < 100 THEN "0" ELSE "")
                  \o ToString(t.frac))

\* the tier changes above 1000 OCT instead of at 1000 OCT
FeeTierInclusive(amount) == IF amount <= 1000 * 1000 THEN "1" ELSE "3"

\* line 66: amount < 1000 ? '1' : '3' (the amount is in thousandths of an OCT)
FeeTier(amount) == IF amount < 1000 * 1000 THEN "1" ELSE "3"

\* lines 61-68: the unsigned transaction
UnsignedTx(from, to, amount, n, now) ==
  [from |-> from,
   to_ |-> to,
   amount |-> ToString(MicroUnits(amount)),
   nonce |-> n,
   ou |-> FeeTier(amount),
   timestamp |-> Seconds(now)]

\* the keys are written in alphabetical order
SignedMessageSorted(tx) ==
  << <<"amount", "string", tx.amount>>,
     <<"from", "string", tx.from>>,
     <<"nonce", "number", ToString(tx.nonce)>>,
     <<"ou", "string", tx.ou>>,
     <<"timestamp", "number", SecondsText(tx.timestamp)>>,
     <<"to_", "string", tx.to_>> >>

\* lines 70-72, JSON.stringify: the members in the order written, each with
\* its key, its JSON type and its text
SignedMessage(tx) ==
  << <<"from", "string", tx.from>>,
     <<"to_", "string", tx.to_>>,
     <<"amount", "string", tx.amount>>,
     <<"nonce", "number", ToString(tx.nonce)>>,
     <<"ou", "string", tx.ou>>,
     <<"timestamp", "number", SecondsText(tx.timestamp)>> >>

\* lines 74-75, nacl.sign.detached: the signature is bound to the bytes signed
Sign(msg) == [over |-> msg]

\* lines 60-80
BuildTransaction(from, to, amount, n, now) ==
  LET tx == UnsignedTx(from, to, amount, n, now) IN
  [from |-> tx.from, to_ |-> tx.to_, amount |-> tx.amount, nonce |-> tx.nonce,
   ou |-> tx.ou, timestamp |-> tx.timestamp,
   signature |-> Sign(SignedMessage(tx)),
   public_key |-> "pk"]

\* lines 212-220: buildTransaction, POST /send-tx
PublicSend ==
  /\ pc = "Public"
  /\ \E now \in ClockValues :
       lastTx' = <<BuildTransaction(WalletAddress, targets[i], amountPerTx,
                                    TxNonce(nonce), now)>>
  /\ \E ok \in BOOLEAN :
       /\ sendLog' = Append(sendLog, [idx |-> i, nonce |-> TxNonce(nonce), ok |-> ok])
       /\ nonce' = NonceAfterSend(nonce, ok)
       /\ lastLog' = Log(IF ok THEN "PUBLIC" ELSE "PUBLIC failed", i, 0)
  /\ IF i < Len(targets)
     THEN /\ pc' = "Sleep"
          /\ UNCHANGED <<i, iterVars>>
     ELSE /\ pc' = "Done"
          /\ i' = i + 1
          /\ IterationEnd
  /\ UNCHANGED <<aeCalls, exitCode, batch, batchIndex, amountPerTx, targets, claimVars, aeVars,
                 n0, nonceFetchFailed, encryptedCache, c0, privLog>>

\* line 220: the delay between two recipients
SleepBetween ==
  /\ pc = "Sleep"
  /\ i' = i + 1
  /\ IterationEnd
  /\ pc' = "LoopHead"
  /\ lastTx' = <<>>
  /\ UNCHANGED <<aeCalls, exitCode, batch, batchIndex, amountPerTx, lastLog, targets, claimVars,
                 aeVars, nonce, n0, nonceFetchFailed, encryptedCache, c0, privLog, sendLog>>

\* the counters are declared outside the function and keep their value
LocalKeptAfterReturn(v) == v

\* lines 164-165, let inside runBatchTransfer: a local does not outlive the call
LocalAfterReturn(v) == 0

\* lines 222 and 241: runBatchTransfer returns, its locals are gone
BatchReturn ==
  /\ pc = "Done"
  /\ pc' = "Interval"
  /\ lastLog' = Log("Next batch in", 0, 0)
  /\ targets' = <<>>
  /\ nonce' = LocalAfterReturn(nonce)
  /\ n0' = 0
  /\ nonceFetchFailed' = FALSE
  /\ encryptedCache' = LocalAfterReturn(encryptedCache)
  /\ c0' = 0
  /\ i' = 0
  /\ privLog' = <<>>
  /\ sendLog' = <<>>
  /\ lastTx' = <<>>
  /\ aeCalls' = 0
  /\ UNCHANGED <<exitCode, batch, batchIndex, amountPerTx, claimVars, aeVars, iterVars>>

\* the loop body runs once
PcAfterIntervalOnce == "Exited"

\* line 239, while (true): the next turn
PcAfterInterval == "LoadTargets"

\* lines 239 and 242: the interval, then the next turn of while (true)
IntervalSleep ==
  /\ pc = "Interval"
  /\ pc' = PcAfterInterval
  /\ UNCHANGED <<aeCalls, lastTx, exitCode, batch, batchIndex, amountPerTx, lastLog, targets, claimVars,
                 aeVars, iterVars, loopVars>>

\* ---------------------------------------------------------- specification
Next ==
  \/ LoadWallet
  \/ LoadTargetAddresses
  \/ FetchPending
  \/ ClaimOne
  \/ ClaimReturn
  \/ AE_GetBalance
  \/ AE_Check
  \/ AE_Sleep
  \/ AE_Return
  \/ GetCurrentNonce
  \/ GetEncryptedCache
  \/ Gate
  \/ CheckRecipient
  \/ GetPublicKey
  \/ PrivateTransfer
  \/ PublicSend
  \/ SleepBetween
  \/ BatchReturn
  \/ IntervalSleep

Spec == Init /\ [][Next]_vars

\* every await of the program returns: the single thread always goes on
LiveSpec == Spec /\ WF_vars(Next)

TypeOK ==
  /\ pc \in {"Start", "Exited", "LoadTargets", "FetchPending", "Claim", "ClaimReturn",
             "AE_Read", "AE_Check", "AE_Sleep", "AE_Return", "GetNonce", "GetCache",
             "LoopHead", "CheckBalance", "GetPubKey", "Private", "Public", "Sleep",
             "Done", "Interval"}
  /\ exitCode \in {0, 1}
  /\ batch \in 0..MaxBatch
  /\ i \in 0..(MaxLines + 1)
  /\ nonce \in Nat
  /\ encryptedCache \in Int

\* ============================================================== properties
\* section 4.6: the phase of the batch the program is in (0: between batches)
Phase(p) ==
  CASE p \in {"FetchPending", "Claim", "ClaimReturn"} -> 1
    [] p \in {"AE_Read", "AE_Check", "AE_Sleep", "AE_Return"} -> 2
    [] p \in {"GetNonce", "GetCache", "LoopHead", "CheckBalance", "GetPubKey",
              "Private", "Public", "Sleep"} -> 3
    [] p = "Done" -> 4
    [] OTHER -> 0

minEncrypted == MicroUnits(amountPerTx)      \* line 166

PrivOf(j) == {k \in 1..Len(privLog) : privLog[k].idx = j}
SendOf(j) == {k \in 1..Len(sendLog) : sendLog[k].idx = j}
PrivSucceeded(j) == \E k \in PrivOf(j) : privLog[k].ok
SendSucceeded(j) == \E k \in SendOf(j) : sendLog[k].ok
\* the loop has left recipient j behind
Completed(j) == j < i \/ (j = i /\ pc = "Sleep")

\* C1: within a batch whose counter starts at n0, the k-th public-send attempt
\* carries nonce n0+k (so no nonce repeats, whether the sends fail or not) and
\* the counter has been incremented once per attempt.
C1_NonceSequence ==
  /\ \A k \in 1..Len(sendLog) : sendLog[k].nonce = n0 + k
  /\ nonce = n0 + Len(sendLog)

C1_Witness ==
  /\ pc = "Done"
  /\ n0 = 5
  /\ Len(sendLog) = 3
  /\ ~sendLog[1].ok /\ ~sendLog[2].ok /\ sendLog[3].ok
  /\ sendLog[3].nonce = 8

\* C2: a recipient the loop has left behind and that was not served by a
\* successful private transfer (ineligible, failed lookup, failed
\* private_transfer) has had its public send attempted, and no recipient ever
\* gets more than one private_transfer request.
C2_Fallback ==
  \A j \in 1..Len(targets) :
    /\ Cardinality(PrivOf(j)) <= 1
    /\ (Completed(j) /\ ~PrivSucceeded(j)) => SendOf(j) # {}
    /\ \A k \in PrivOf(j), m \in SendOf(j) : ~privLog[k].ok

C2_Witness ==
  /\ pc = "Done"
  /\ Len(targets) = 2
  /\ \E k \in PrivOf(1) : ~privLog[k].ok
  /\ SendOf(1) # {}
  /\ PrivOf(2) = {} /\ SendOf(2) # {}

\* C3: a private_transfer request is issued only from a state where the cache
\* covers one transfer, the coin selected private, has_public_key is true and
\* the key decodes to 32 bytes; with a snapshot of 50000 and min 100000 no
\* private_transfer request is issued in the batch.
C3_Gate ==
  /\ [][Len(privLog') > Len(privLog) =>
          /\ encryptedCache >= minEncrypted
          /\ coin = "heads"
          /\ hasPublicKey = "true"
          /\ toPubKey.present /\ Base64DecodedLength(toPubKey.v) = 32]_vars
  /\ [](c0 = 50000 /\ minEncrypted = 100000 => privLog = <<>>)

C3_Witness ==
  /\ pc = "Public"
  /\ privLog # <<>> /\ privLog[Len(privLog)].idx = i
  /\ coin = "heads" /\ hasPublicKey = "true" /\ toPubKey = Field(43)
  /\ encryptedCache = 100000 /\ minEncrypted = 100000

\* C4: a recipient served by a successful private transfer gets no send-tx, and
\* every public send carries n0 plus the number of recipients up to its own
\* that were not served privately: privately served recipients consume no nonce.
C4_PrivateNoNonce ==
  /\ \A j \in 1..Len(targets) : PrivSucceeded(j) => SendOf(j) = {}
  /\ \A k \in 1..Len(sendLog) :
       sendLog[k].nonce =
         n0 + Cardinality({j \in 1..sendLog[k].idx : ~PrivSucceeded(j)})
  /\ nonce = n0 + Cardinality({j \in 1..Len(targets) : SendOf(j) # {}})

C4_Witness ==
  /\ pc = "Done"
  /\ Len(targets) = 3
  /\ PrivSucceeded(1) /\ PrivSucceeded(2)
  /\ Len(sendLog) = 1 /\ sendLog[1].idx = 3 /\ sendLog[1].nonce = n0 + 1

\* C5: once the target list is loaded the batch reaches Done whatever requests
\* fail, the process does not end inside a batch, and at Done every target was
\* served by a successful private transfer or had its public send attempted.
C5_NoAbort ==
  /\ [](pc = "Done" =>
          \A j \in 1..Len(targets) : PrivSucceeded(j) \/ SendOf(j) # {})
  /\ [](pc = "Exited" => lastLog.kind \in {"Failed to load wallet",
                                          "Failed to load target addresses"})
  /\ (pc = "FetchPending" ~> pc = "Done")

C5_Witness ==
  /\ pc = "Done"
  /\ Len(targets) = 3
  /\ n0 = 0
  /\ \A j \in 1..3 : (\E k \in PrivOf(j) : ~privLog[k].ok) /\ ~SendSucceeded(j)
  /\ Len(sendLog) = 3

\* C6: autoEncrypt issues an encrypt_balance request only when
\* encrypted_raw < min and public_raw >= min + 1000000; with encrypted_raw >= min
\* it returns true without a request, with encrypted_raw < min and
\* public_raw < min + 1000000 it returns false without a request.
C6_NoEncryptUnless ==
  /\ encReqs # <<>> =>
       encrypted_raw < minEncrypted /\ public_raw >= minEncrypted + 1000000
  /\ (pc = "AE_Return" /\ encrypted_raw >= minEncrypted) =>
       funded = "true" /\ encReqs = <<>>
  /\ (pc = "AE_Return" /\ encrypted_raw < minEncrypted
        /\ public_raw < minEncrypted + 1000000) =>
       funded = "false" /\ encReqs = <<>>

C6_Witness ==
  /\ pc = "AE_Return"
  /\ encrypted_raw = 0 /\ public_raw = 500000 /\ minEncrypted = 100000
  /\ funded = "false" /\ encReqs = <<>>

\* C7 as stated: whenever encrypted_raw < min and public_raw >= min + buffer,
\* autoEncrypt has issued one request for min, waited, and returns true.
C7_AlwaysFunded ==
  (pc = "AE_Return" /\ encrypted_raw < minEncrypted
     /\ public_raw >= minEncrypted + 1000000) =>
    /\ Len(encReqs) = 1 /\ encReqs[1].amount = minEncrypted
    /\ slept /\ funded = "true"
    /\ aeReads = 1

\* C7 (amended): in that case autoEncrypt has issued exactly one request, for
\* min, and read the balance once; when the request succeeded it waited and
\* returns true, when the request failed it returns false without waiting.
C7_EncryptRequest ==
  (pc = "AE_Return" /\ encrypted_raw < minEncrypted
     /\ public_raw >= minEncrypted + 1000000) =>
    /\ Len(encReqs) = 1 /\ encReqs[1].amount = minEncrypted
    /\ aeReads = 1
    /\ encReqs[1].ok => (slept /\ funded = "true")
    /\ ~encReqs[1].ok => (~slept /\ funded = "false")

C7_Witness ==
  /\ pc = "AE_Return"
  /\ encrypted_raw = 50000 /\ public_raw = 1100000 /\ minEncrypted = 100000
  /\ encReqs = <<[amount |-> 100000, ok |-> TRUE]>>
  /\ slept /\ funded = "true"

\* C8: the claim requests issued so far are for the first transfers of the
\* fetched list, one each and in the order returned, and when the claim phase
\* returns every fetched transfer has had its request, whichever claims failed.
C8_ClaimIsolation ==
  /\ Len(claimLog) <= Len(transfers)
  /\ \A k \in 1..Len(claimLog) : claimLog[k].id = transfers[k]
  /\ pc = "Claim" => Len(claimLog) = ci - 1
  /\ pc = "ClaimReturn" => Len(claimLog) = Len(transfers)

C8_Witness ==
  /\ pc = "ClaimReturn"
  /\ transfers = <<2, 3, 1>>
  /\ ~claimLog[1].ok /\ claimLog[2].ok /\ claimLog[3].ok

\* C9 as stated: once the driver loop is entered no terminal state is reachable.
C9_NoTerminalState == batch >= 1 => pc # "Exited"

\* C9 (amended): the process ends only with status 1 on a wallet or target-file
\* load failure; every batch that has loaded its targets finishes and reaches
\* the interval, and after the interval the next batch starts unless loading
\* the target file fails.
C9_RunsUntilLoadFailure ==
  /\ [](pc = "Exited" =>
          /\ exitCode = 1
          /\ lastLog.kind \in {"Failed to load wallet",
                               "Failed to load target addresses"})
  /\ (pc = "FetchPending" ~> pc = "Interval")
  /\ (pc = "Interval" ~> (pc = "FetchPending" \/ pc = "Exited"))

C9_Witness ==
  /\ pc = "FetchPending"
  /\ batchIndex = 2

\* C10 as stated: at Done the last line logged is the batch summary, with the
\* number of recipients whose transfer succeeded out of the number of targets.
C10_BatchSummary ==
  pc = "Done" =>
    lastLog = Log("Batch completed",
                  Cardinality({j \in 1..Len(targets) :
                                 PrivSucceeded(j) \/ SendSucceeded(j)}),
                  Len(targets))

\* C11: between two batches and until the reads of lines 164-165 nothing of the
\* previous batch is left (no targets, counter, cache or request history); the
\* target list is only written by the load of its own batch; and the first
\* iteration of the recipient loop starts with the counter and the cache equal
\* to the values getCurrentNonce and getEncryptedBalance returned in this batch.
C11_NoCarryOver ==
  /\ [](pc \in {"Interval", "LoadTargets"} =>
          /\ targets = <<>> /\ i = 0
          /\ privLog = <<>> /\ sendLog = <<>>)
  /\ [](pc \in {"Interval", "LoadTargets", "FetchPending", "Claim", "ClaimReturn",
                "AE_Read", "AE_Check", "AE_Sleep", "AE_Return", "GetNonce"} =>
          nonce = 0 /\ encryptedCache = 0)
  /\ [][targets' # targets =>
          \/ pc = "LoadTargets" /\ targets' \in {FilterNonEmpty(f) : f \in TargetFiles}
          \/ pc = "Done" /\ targets' = <<>>]_vars
  /\ []((pc = "LoopHead" /\ i = 1) =>
          /\ nonce = n0 /\ encryptedCache = c0
          /\ privLog = <<>> /\ sendLog = <<>>)

C11_Witness ==
  /\ batchIndex = 2
  /\ pc = "LoopHead" /\ i = 1
  /\ Len(targets) = 3
  /\ nonce = 5 /\ encryptedCache = 250000

\* C12: when the nonce fetch fails the process does not end: getCurrentNonce
\* has returned 0, the batch goes on to its balance read and reaches Done, and
\* the first public send of that batch carries nonce 1.
C12_NonceFetchFailure ==
  /\ [](nonceFetchFailed =>
          /\ pc # "Exited"
          /\ n0 = 0
          /\ sendLog # <<>> => sendLog[1].nonce = 1)
  /\ [][(pc = "GetNonce" /\ nonceFetchFailed') => (pc' = "GetCache" /\ nonce' = 0)]_vars
  /\ ((pc = "GetCache" /\ nonceFetchFailed) ~> pc = "Done")

C12_Witness ==
  /\ pc = "Done"
  /\ nonceFetchFailed
  /\ Len(sendLog) = 2 /\ sendLog[1].nonce = 1 /\ sendLog[2].nonce = 2

\* C13: when loading the target file fails the process is ended with status 1
\* in that very step, before any request of the batch (no claim, balance
\* read, encrypt, private_transfer or send-tx), and an ended process takes no
\* further step.
C13_TargetLoadFatal ==
  /\ [](lastLog.kind = "Failed to load target addresses" =>
          /\ pc = "Exited" /\ exitCode = 1
          /\ claimLog = <<>> /\ encReqs = <<>> /\ aeReads = 0
          /\ privLog = <<>> /\ sendLog = <<>>)
  /\ [][pc # "Exited"]_vars

C13_Witness ==
  /\ pc = "Exited" /\ exitCode = 1
  /\ batchIndex = 2
  /\ lastLog.kind = "Failed to load target addresses"

\* C14: the signature of every transaction posted to send-tx is over the six
\* members from, to_, amount, nonce, ou, timestamp, in that order, each with the
\* value the posted transaction carries; signature and public_key are not part
\* of the signed message; and the transaction is the one of the current send.
C14_SignedFields ==
  \A k \in 1..Len(lastTx) :
    LET t == lastTx[k]
        m == t.signature.over
    IN /\ Len(m) = 6
       /\ m[1] = <<"from", "string", t.from>>
       /\ m[2] = <<"to_", "string", t.to_>>
       /\ m[3] = <<"amount", "string", t.amount>>
       /\ m[4] = <<"nonce", "number", ToString(t.nonce)>>
       /\ m[5] = <<"ou", "string", t.ou>>
       /\ m[6] = <<"timestamp", "number", SecondsText(t.timestamp)>>
       /\ \A x \in 1..Len(m) : m[x][1] \notin {"signature", "public_key"}
       /\ sendLog # <<>>
       /\ t.nonce = sendLog[Len(sendLog)].nonce
       /\ t.to_ = targets[sendLog[Len(sendLog)].idx]
       /\ t.from = WalletAddress
       /\ t.amount = ToString(MicroUnits(amountPerTx))

C14_Witness ==
  /\ pc = "Done"
  /\ lastTx # <<>>
  /\ lastTx[1].nonce = 8
  /\ lastTx[1].amount = "10000"
  /\ lastTx[1].signature.over[4] = <<"nonce", "number", "8">>
  /\ lastTx[1].signature.over[6] = <<"timestamp", "number", "1.123">>

\* C15: the ou of every transaction posted is "1" when the configured amount
\* is below 1000 OCT and "3" otherwise: "1" for 0.01, 0.1 and 999.999 OCT,
\* "3" for exactly 1000 OCT.
C15_FeeTier ==
  \A k \in 1..Len(lastTx) :
    /\ lastTx[k].ou \in {"1", "3"}
    /\ lastTx[k].ou = "1" <=> amountPerTx < 1000000
    /\ amountPerTx = 999999 => lastTx[k].ou = "1"
    /\ amountPerTx = 1000000 => lastTx[k].ou = "3"

C15_Witness ==
  /\ lastTx # <<>>
  /\ amountPerTx = 1000000
  /\ lastTx[1].amount = "1000000000"
  /\ lastTx[1].ou = "3"

\* C16 as stated: the loop moves on to the next recipient only by the step
\* that waits the inter-transaction delay, whether the recipient was served by
\* a private or by a public transfer, and no delay follows the last recipient.
C16_DelayBetween ==
  /\ [][(i >= 1 /\ i' = i + 1 /\ pc' = "LoopHead") => pc = "Sleep"]_vars
  /\ [][pc' = "Done" => pc # "Sleep"]_vars

\* C17: a batch goes through the phases ClaimPending, Funding, Iterating, Done
\* one after the other, skipping none and never going back; claim requests are
\* issued only in ClaimPending, encrypt requests only in Funding, private and
\* public transfers only in Iterating; and the requests are for recipients in
\* list order, the loop index going up by one from the first to the last.
C17_PhaseOrder ==
  /\ [][Phase(pc') # Phase(pc) =>
          \/ Phase(pc') = Phase(pc) + 1
          \/ Phase(pc) = 4 /\ Phase(pc') = 0
          \/ Phase(pc) = 0 /\ Phase(pc') = 1]_vars
  /\ [](claimLog # <<>> => Phase(pc) = 1)
  /\ [](encReqs # <<>> => Phase(pc) = 2)
  /\ [](privLog # <<>> \/ sendLog # <<>> => Phase(pc) \in {3, 4})
  /\ [][i' # i => (i' = i + 1 \/ i' = 0)]_vars
  /\ [](\A k \in 1..Len(privLog) : privLog[k].idx <= i)
  /\ [][Len(sendLog') > Len(sendLog) => sendLog'[Len(sendLog')].idx = i]_vars
  /\ [][Len(privLog') > Len(privLog) => privLog'[Len(privLog')].idx = i]_vars
  /\ [](pc = "Done" => i = Len(targets) + 1)

C17_Witness ==
  /\ pc = "Done"
  /\ Len(targets) = 3
  /\ aeCalls = 1
  /\ Len(privLog) = 1 /\ privLog[1].idx = 2 /\ privLog[1].ok
  /\ Len(sendLog) = 2 /\ sendLog[1].idx = 1 /\ sendLog[2].idx = 3

\* C18: autoEncrypt is invoked once per batch (never twice, and once by the
\* time the recipient loop starts), each invocation issues at most one
\* encrypt_balance request, and none is issued during the recipient loop,
\* also when the cache has fallen below one transfer amount.
C18_OneShotTopUp ==
  /\ aeCalls <= 1
  /\ Phase(pc) \in {3, 4} => aeCalls = 1
  /\ Len(encReqs) <= 1
  /\ Phase(pc) \in {3, 4} => encReqs = <<>>
  /\ Phase(pc) = 1 => aeCalls = 0

C18_Witness ==
  /\ pc = "Done"
  /\ aeCalls = 1
  /\ Len(targets) = 3
  /\ c0 = 100000 /\ minEncrypted = 100000 /\ encryptedCache = 0
  /\ PrivSucceeded(1) /\ SendOf(2) # {} /\ SendOf(3) # {}

PrivSuccesses == Cardinality({k \in 1..Len(privLog) : privLog[k].ok})

\* C19: from the snapshot to Done the cache equals the snapshot c0 minus min
\* for each private transfer that succeeded so far; it is written only by the
\* snapshot read, by a successful private transfer and by the return of the
\* batch, so failed private transfers, lookups and public sends leave it alone
\* and the loop never reads the balance again.
C19_CacheDecrement ==
  /\ [](Phase(pc) \in {3, 4} /\ pc # "GetNonce" /\ pc # "GetCache" =>
          encryptedCache = c0 - PrivSuccesses * minEncrypted)
  /\ [][encryptedCache' # encryptedCache =>
          \/ pc = "GetCache"
          \/ pc = "Done"
          \/ /\ pc = "Private"
             /\ Len(privLog') = Len(privLog) + 1
             /\ privLog'[Len(privLog')].ok
             /\ encryptedCache' = encryptedCache - minEncrypted]_vars
  /\ [][c0' # c0 => pc \in {"GetCache", "Done"}]_vars

C19_Witness ==
  /\ pc = "Done"
  /\ Len(targets) = 3
  /\ c0 = 250000 /\ minEncrypted = 10000
  /\ Len(privLog) = 3 /\ privLog[1].ok /\ ~privLog[2].ok /\ privLog[3].ok
  /\ encryptedCache = 230000

\* C20: the cache is never negative, and the private transfers that succeeded
\* in the batch number at most floor(c0 / min).
C20_CacheNonNegative ==
  /\ encryptedCache >= 0
  /\ minEncrypted > 0
  /\ PrivSuccesses <= c0 \div minEncrypted

C20_Witness ==
  /\ pc = "Done"
  /\ Len(targets) = 3
  /\ c0 = 250000 /\ minEncrypted = 100000
  /\ PrivSuccesses = 2
  /\ encryptedCache = 50000
  /\ SendOf(3) # {}

====
